---- MODULE Spec2Model ----
(***************************************************************************)
(* Inventory API (main.py, schemas.py): the request handlers of the        *)
(* reference entities (categoria, proveedor, cliente, producto) and of the *)
(* order endpoints (compra, venta), run by clients against one external    *)
(* store. Every store call (.execute()) is one atomic step; a handler that *)
(* makes several calls is a sequence of steps that other requests          *)
(* interleave.                                                             *)
(***************************************************************************)
EXTENDS Integers, Sequences, FiniteSets, TLC

\* ------------------------------------------------------------------ bounds
MaxStock == 1
MaxCantidad == 1
MaxLineas == 2
MaxProductos == 1
MaxCabeceras == 2
MaxReferencias == 1
MaxFilas == 3
MaxNombre == 2

\* The clients whose requests run concurrently.
Clientes == {"c1", "c2"}

\* The product handlers make one store call each: the store serialises them,
\* and one client serves them all.
Primero == "c1"

VARIABLES
    categoria,        \* table categoria: row i has id_categoria = i
    proveedor,        \* table proveedor: row i has id_proveedor = i
    cliente,          \* table cliente: row i has id_cliente = i
    producto,         \* table producto: row i has id_producto = i
    compra,           \* table compra: row i has id_compra = i
    detalle_compra,   \* table detalle_compra
    venta,            \* table venta: row i has id_venta = i
    detalle_venta,    \* table detalle_venta
    pc,               \* per client: the handler step it is at
    peticion,         \* per client: the request it is serving
    idx,              \* per client: position of the pre-check loop
    id_cab,           \* per client: id_compra / id_venta of the inserted header
    resp,             \* per client: the HTTP response of its last request
    llamadas,         \* per client: the store calls of its request, in order
    visto,            \* per client: the stock each pre-check read returned
    solapada          \* per client: clients past their pre-check when it inserted

\* The tables of the reference entities other than producto.
referencias == <<categoria, proveedor, cliente>>

almacen == <<categoria, proveedor, cliente,
             producto, compra, detalle_compra, venta, detalle_venta>>
vars == <<categoria, proveedor, cliente,
          producto, compra, detalle_compra, venta, detalle_venta,
          pc, peticion, idx, id_cab, resp, llamadas, visto, solapada>>

\* ------------------------------------------------------------ HTTP results
Respuesta(st, err, id, datos) ==
    [status |-> st, error |-> err, id |-> id, datos |-> datos]

SinRespuesta == Respuesta(0, "pendiente", 0, <<>>)

Llamada(tabla, op, res) == [tabla |-> tabla, op |-> op, res |-> res]

\* A client may start a request when it serves none.
Libre(c) == pc[c] = "idle"

\* The client's state when a request ends at once with response r after
\* the store calls ll.
Termina(c, req, r, ll) ==
    /\ pc' = [pc EXCEPT ![c] = "done"]
    /\ peticion' = [peticion EXCEPT ![c] = req]
    /\ idx' = [idx EXCEPT ![c] = 0]
    /\ id_cab' = [id_cab EXCEPT ![c] = 0]
    /\ resp' = [resp EXCEPT ![c] = r]
    /\ llamadas' = [llamadas EXCEPT ![c] = ll]
    /\ visto' = [visto EXCEPT ![c] = <<>>]
    /\ solapada' = [solapada EXCEPT ![c] = {}]

\* The response is delivered and the request's state is gone.
responder(c) ==
    /\ pc[c] = "done"
    /\ pc' = [pc EXCEPT ![c] = "idle"]
    /\ peticion' = [peticion EXCEPT ![c] = [op |-> "ninguna"]]
    /\ idx' = [idx EXCEPT ![c] = 0]
    /\ id_cab' = [id_cab EXCEPT ![c] = 0]
    /\ resp' = [resp EXCEPT ![c] = SinRespuesta]
    /\ llamadas' = [llamadas EXCEPT ![c] = <<>>]
    /\ visto' = [visto EXCEPT ![c] = <<>>]
    /\ solapada' = [solapada EXCEPT ![c] = {}]
    /\ UNCHANGED almacen

\* ------------------------------------------------------- schemas: producto
FilaProducto(s, m, a) == [stock |-> s, stock_minimo |-> m, activo |-> a]

\* ProductoCreate bodies a client may send (valid and invalid).
ProductoCreateEntradas ==
    { FilaProducto(s, m, a) : s \in -1..MaxStock, m \in -1..MaxStock, a \in BOOLEAN }

\* ProductoBase: stock_minimo and stock are Field(ge=0).
ProductoBaseValido(p) == p.stock_minimo >= 0 /\ p.stock >= 0

\* ProductoUpdate bodies: every field is optional; data holds the fields set.
ProductoUpdateEntradas ==
    { s @@ m @@ a :
        s \in {<<>>} \cup { [stock |-> x] : x \in -1..MaxStock },
        m \in {<<>>} \cup { [stock_minimo |-> x] : x \in -1..MaxStock },
        a \in {<<>>} \cup { [activo |-> x] : x \in BOOLEAN } }

\* Mutant: ProductoUpdate.stock without ge=0.
ProductoUpdateValidoSinStock(data) ==
    "stock_minimo" \in DOMAIN data => data["stock_minimo"] >= 0

ProductoUpdateValido(data) ==
    /\ "stock_minimo" \in DOMAIN data => data["stock_minimo"] >= 0
    /\ "stock" \in DOMAIN data => data["stock"] >= 0

\* store: update(data).eq(id): the row with the fields of data replaced.
AplicarUpdate(fila, data) ==
    [f \in DOMAIN fila |-> IF f \in DOMAIN data THEN data[f] ELSE fila[f]]

\* --------------------------------------------------------- producto: report
\* The rows of a table with their identifier, in identifier order.
ConId(tabla) == [i \in 1..Len(tabla) |-> [id |-> i, fila |-> tabla[i]]]

\* Mutant: the report compares with < instead of <=.
EsStockBajoEstricto(p) == p["stock"] < p["stock_minimo"]

\* if p["stock"] <= p["stock_minimo"]
EsStockBajo(p) == p["stock"] <= p["stock_minimo"]

RegistroStockBajo(r) ==
    [id_producto |-> r.id,
     stock_actual |-> r.fila["stock"],
     stock_minimo |-> r.fila["stock_minimo"],
     diferencia |-> r.fila["stock_minimo"] - r.fila["stock"]]

\* The select .eq("activo", True) of productos_stock_bajo.
SelectActivos(tabla) == SelectSeq(ConId(tabla), LAMBDA r : r.fila["activo"])

\* The loop over response.data: one record for each row that passes the test.
ReporteStockBajo(tabla) ==
    LET bajos == SelectSeq(SelectActivos(tabla), LAMBDA r : EsStockBajo(r.fila))
    IN  [k \in 1..Len(bajos) |-> RegistroStockBajo(bajos[k])]

\* -------------------------------------------------------- producto: handlers
crear_producto(c) ==
    /\ Libre(c)
    /\ \E body \in ProductoCreateEntradas :
        LET req == [op |-> "crear_producto"] IN
        IF ~ProductoBaseValido(body)
        THEN /\ Termina(c, req, Respuesta(422, "ValidationFailed", 0, <<>>), <<>>)
             /\ UNCHANGED almacen
        ELSE \/ /\ Len(producto) < MaxProductos
                /\ producto' = Append(producto, body)
                /\ Termina(c, req, Respuesta(201, "ok", Len(producto) + 1, <<>>),
                           <<Llamada("producto", "insert", "ok")>>)
                /\ UNCHANGED <<referencias, compra, detalle_compra, venta, detalle_venta>>
             \/ /\ Termina(c, req, Respuesta(400, "CreationFailed", 0, <<>>),
                           <<Llamada("producto", "insert", "error")>>)
                /\ UNCHANGED almacen

actualizar_producto(c) ==
    /\ Libre(c)
    /\ \E id \in 1..(MaxProductos + 1), data \in ProductoUpdateEntradas :
        LET req == [op |-> "actualizar_producto", id |-> id, campos |-> DOMAIN data] IN
        IF ~ProductoUpdateValido(data)
        THEN /\ Termina(c, req, Respuesta(422, "ValidationFailed", 0, <<>>), <<>>)
             /\ UNCHANGED almacen
        ELSE IF DOMAIN data = {}
        THEN /\ Termina(c, req, Respuesta(400, "ValidationFailed", 0, <<>>), <<>>)
             /\ UNCHANGED almacen
        ELSE \/ /\ id \in 1..Len(producto)
                /\ producto' = [producto EXCEPT ![id] = AplicarUpdate(@, data)]
                /\ Termina(c, req, Respuesta(200, "ok", id, <<>>),
                           <<Llamada("producto", "update", "ok")>>)
                /\ UNCHANGED <<referencias, compra, detalle_compra, venta, detalle_venta>>
             \/ /\ id \notin 1..Len(producto)
                /\ Termina(c, req, Respuesta(404, "NotFound", 0, <<>>),
                           <<Llamada("producto", "update", "vacio")>>)
                /\ UNCHANGED almacen
             \/ /\ Termina(c, req, Respuesta(500, "InternalError", 0, <<>>),
                           <<Llamada("producto", "update", "error")>>)
                /\ UNCHANGED almacen

eliminar_producto(c) ==
    /\ Libre(c)
    /\ \E id \in 1..(MaxProductos + 1) :
        LET req == [op |-> "eliminar_producto", id |-> id] IN
        \/ /\ id \in 1..Len(producto)
           /\ producto' = [producto EXCEPT ![id] = AplicarUpdate(@, [activo |-> FALSE])]
           /\ Termina(c, req, Respuesta(200, "ok", id, <<>>),
                      <<Llamada("producto", "update", "ok")>>)
           /\ UNCHANGED <<referencias, compra, detalle_compra, venta, detalle_venta>>
        \/ /\ id \notin 1..Len(producto)
           /\ Termina(c, req, Respuesta(404, "NotFound", 0, <<>>),
                      <<Llamada("producto", "update", "vacio")>>)
           /\ UNCHANGED almacen
        \/ /\ Termina(c, req, Respuesta(500, "InternalError", 0, <<>>),
                      <<Llamada("producto", "update", "error")>>)
           /\ UNCHANGED almacen

productos_stock_bajo(c) ==
    /\ Libre(c)
    /\ LET req == [op |-> "productos_stock_bajo"] IN
        \/ Termina(c, req, Respuesta(200, "ok", 0, ReporteStockBajo(producto)),
                   <<Llamada("producto", "select", "ok")>>)
        \/ Termina(c, req, Respuesta(500, "InternalError", 0, <<>>),
                   <<Llamada("producto", "select", "error")>>)
    /\ UNCHANGED almacen

\* --------------------------------- schemas: categoria, proveedor, cliente
\* The fields of a reference row that the handlers read or write.
FilaReferencia(n, a) == [nombre |-> n, activo |-> a]

\* CategoriaCreate / ProveedorCreate / ClienteCreate bodies (valid and invalid).
ReferenciaCreateEntradas ==
    { FilaReferencia(n, a) : n \in {"", "a", "b"}, a \in BOOLEAN }

\* CategoriaBase / ProveedorBase / ClienteBase: nombre is Field(min_length=1).
ReferenciaBaseValido(r) == r.nombre # ""

\* CategoriaUpdate / ProveedorUpdate / ClienteUpdate bodies: every field is
\* optional; data holds the fields set (model_dump(exclude_unset=True)).
ReferenciaUpdateEntradas ==
    { n @@ a :
        n \in {<<>>} \cup { [nombre |-> x] : x \in {"", "a", "b"} },
        a \in {<<>>} \cup { [activo |-> x] : x \in BOOLEAN } }

\* nombre: Optional[str] = Field(None, min_length=1, ...)
ReferenciaUpdateValido(data) ==
    "nombre" \in DOMAIN data => data["nombre"] # ""

\* Mutant: "if not data" is missing, so an empty update reaches the store.
HayDatosSiempre(data) == TRUE

\* if not data: raise HTTPException(status_code=400, ...)
HayDatos(data) == DOMAIN data # {}

\* ----------------------------------- categoria, proveedor, cliente: handlers
\* insert(data).execute() on a reference table: tabla is the table before the
\* call and nueva the table after it; errores are the responses the handler
\* gives when the call raises.
insertar_fila(c, req, tn, tabla, nueva, body, errores) ==
    \/ /\ Len(tabla) < MaxReferencias
       /\ nueva = Append(tabla, body)
       /\ Termina(c, req, Respuesta(201, "ok", Len(tabla) + 1, <<>>),
                  <<Llamada(tn, "insert", "ok")>>)
    \/ /\ nueva = tabla
       /\ \E r \in errores :
            Termina(c, req, r, <<Llamada(tn, "insert", "error")>>)

\* Mutant: the soft delete removes the row.
actualizar_fila_borrando(c, req, tn, tabla, nueva, id, data) ==
    \/ /\ id \in 1..Len(tabla)
       /\ nueva = SubSeq(tabla, 1, id - 1) \o SubSeq(tabla, id + 1, Len(tabla))
       /\ Termina(c, req, Respuesta(200, "ok", id, <<>>),
                  <<Llamada(tn, "update", "ok")>>)
    \/ /\ id \notin 1..Len(tabla)
       /\ nueva = tabla
       /\ Termina(c, req, Respuesta(404, "NotFound", 0, <<>>),
                  <<Llamada(tn, "update", "vacio")>>)

\* update(data).eq(id).execute() followed by "if not response.data: raise 404"
\* and the handler's "except Exception: raise 500".
actualizar_fila(c, req, tn, tabla, nueva, id, data) ==
    \/ /\ id \in 1..Len(tabla)
       /\ nueva = [tabla EXCEPT ![id] = AplicarUpdate(@, data)]
       /\ Termina(c, req, Respuesta(200, "ok", id, <<>>),
                  <<Llamada(tn, "update", "ok")>>)
    \/ /\ id \notin 1..Len(tabla)
       /\ nueva = tabla
       /\ Termina(c, req, Respuesta(404, "NotFound", 0, <<>>),
                  <<Llamada(tn, "update", "vacio")>>)
    \/ /\ nueva = tabla
       /\ Termina(c, req, Respuesta(500, "InternalError", 0, <<>>),
                  <<Llamada(tn, "update", "error")>>)

\* The PATCH handler of a reference table: validation by FastAPI, the empty
\* check, then the update.
patch_fila(c, op, tn, tabla, nueva) ==
    \E id \in 1..(MaxReferencias + 1), data \in ReferenciaUpdateEntradas :
        LET req == [op |-> op, id |-> id, campos |-> DOMAIN data] IN
        IF ~ReferenciaUpdateValido(data)
        THEN /\ Termina(c, req, Respuesta(422, "ValidationFailed", 0, <<>>), <<>>)
             /\ nueva = tabla
        ELSE IF ~HayDatos(data)
        THEN /\ Termina(c, req, Respuesta(400, "ValidationFailed", 0, <<>>), <<>>)
             /\ nueva = tabla
        ELSE actualizar_fila(c, req, tn, tabla, nueva, id, data)

\* What the row named by id was when the request arrived (kept with the
\* request for the record; the handler does not read it).
Previo(tabla, id) ==
    IF id \notin 1..Len(tabla) THEN "ausente"
    ELSE IF tabla[id]["activo"] THEN "activo" ELSE "inactivo"

\* Mutant: the update is filtered by activo = true, so a row that is already
\* inactive matches nothing.
delete_fila_solo_activos(c, op, tn, tabla, nueva) ==
    \E id \in 1..(MaxReferencias + 1) :
        LET req == [op |-> op, id |-> id, previo |-> Previo(tabla, id)] IN
        IF Previo(tabla, id) = "activo"
        THEN actualizar_fila(c, req, tn, tabla, nueva, id, [activo |-> FALSE])
        ELSE /\ nueva = tabla
             /\ Termina(c, req, Respuesta(404, "NotFound", 0, <<>>),
                        <<Llamada(tn, "update", "vacio")>>)

\* The DELETE handler of a reference table: update({"activo": False}).
delete_fila(c, op, tn, tabla, nueva) ==
    \E id \in 1..(MaxReferencias + 1) :
        actualizar_fila(c, [op |-> op, id |-> id, previo |-> Previo(tabla, id)],
                        tn, tabla, nueva, id, [activo |-> FALSE])

\* The POST handler of a reference table.
post_fila(c, op, tn, tabla, nueva, errores) ==
    \E body \in ReferenciaCreateEntradas :
        LET req == [op |-> op] IN
        IF ~ReferenciaBaseValido(body)
        THEN /\ Termina(c, req, Respuesta(422, "ValidationFailed", 0, <<>>), <<>>)
             /\ nueva = tabla
        ELSE insertar_fila(c, req, tn, tabla, nueva, body, errores)

\* crear_categoria catches APIError only: a duplicate name gives 400, another
\* APIError gives 400, and any other exception reaches the framework (500).
crear_categoria(c) ==
    /\ Libre(c)
    /\ post_fila(c, "crear_categoria", "categoria", categoria, categoria',
                 { Respuesta(400, "DuplicateKey", 0, <<>>),
                   Respuesta(400, "CreationFailed", 0, <<>>),
                   Respuesta(500, "InternalError", 0, <<>>) })
    /\ UNCHANGED <<proveedor, cliente, producto, compra, detalle_compra,
                   venta, detalle_venta>>

actualizar_categoria(c) ==
    /\ Libre(c)
    /\ patch_fila(c, "actualizar_categoria", "categoria", categoria, categoria')
    /\ UNCHANGED <<proveedor, cliente, producto, compra, detalle_compra,
                   venta, detalle_venta>>

eliminar_categoria(c) ==
    /\ Libre(c)
    /\ delete_fila(c, "eliminar_categoria", "categoria", categoria, categoria')
    /\ UNCHANGED <<proveedor, cliente, producto, compra, detalle_compra,
                   venta, detalle_venta>>

crear_proveedor(c) ==
    /\ Libre(c)
    /\ post_fila(c, "crear_proveedor", "proveedor", proveedor, proveedor',
                 { Respuesta(400, "CreationFailed", 0, <<>>) })
    /\ UNCHANGED <<categoria, cliente, producto, compra, detalle_compra,
                   venta, detalle_venta>>

actualizar_proveedor(c) ==
    /\ Libre(c)
    /\ patch_fila(c, "actualizar_proveedor", "proveedor", proveedor, proveedor')
    /\ UNCHANGED <<categoria, cliente, producto, compra, detalle_compra,
                   venta, detalle_venta>>

eliminar_proveedor(c) ==
    /\ Libre(c)
    /\ delete_fila(c, "eliminar_proveedor", "proveedor", proveedor, proveedor')
    /\ UNCHANGED <<categoria, cliente, producto, compra, detalle_compra,
                   venta, detalle_venta>>

crear_cliente(c) ==
    /\ Libre(c)
    /\ post_fila(c, "crear_cliente", "cliente", cliente, cliente',
                 { Respuesta(400, "CreationFailed", 0, <<>>) })
    /\ UNCHANGED <<categoria, proveedor, producto, compra, detalle_compra,
                   venta, detalle_venta>>

actualizar_cliente(c) ==
    /\ Libre(c)
    /\ patch_fila(c, "actualizar_cliente", "cliente", cliente, cliente')
    /\ UNCHANGED <<categoria, proveedor, producto, compra, detalle_compra,
                   venta, detalle_venta>>

eliminar_cliente(c) ==
    /\ Libre(c)
    /\ delete_fila(c, "eliminar_cliente", "cliente", cliente, cliente')
    /\ UNCHANGED <<categoria, proveedor, producto, compra, detalle_compra,
                   venta, detalle_venta>>

\* ------------------------------------------------- schemas: compra, venta
\* DetalleCompraCreate / DetalleVentaCreate: the fields the handlers read.
Linea == [id_producto : 1..(MaxProductos + 1), cantidad : 0..MaxCantidad]

SeqHasta(S, n) == UNION { [1..k -> S] : k \in 0..n }

\* The detalles lists a client may send (valid and invalid).
DetallesEntradas == SeqHasta(Linea, MaxLineas)

\* DetalleCompraBase / DetalleVentaBase: id_producto and cantidad are Field(gt=0).
DetalleBaseValido(d) == d.id_producto > 0 /\ d.cantidad > 0

\* Mutant: CompraCreate without min_length=1 and without validar_detalles.
CompraCreateValidoSinMinimo(detalles) ==
    \A i \in 1..Len(detalles) : DetalleBaseValido(detalles[i])

\* CompraCreate: detalles is Field(min_length=1); validar_detalles rejects an
\* empty list.
CompraCreateValido(detalles) ==
    /\ Len(detalles) >= 1
    /\ \A i \in 1..Len(detalles) : DetalleBaseValido(detalles[i])

\* VentaCreate: as CompraCreate.
VentaCreateValido(detalles) ==
    /\ Len(detalles) >= 1
    /\ \A i \in 1..Len(detalles) : DetalleBaseValido(detalles[i])

\* EstadoEnum
EstadoEnum == {"completada", "cancelada", "pendiente"}

\* CompraBase / VentaBase: estado defaults to EstadoEnum.COMPLETADA and
\* observaciones to None.
CabeceraNueva == [estado |-> "completada", observaciones |-> "null"]

\* CompraUpdate bodies: every field is optional; data holds the fields set.
CompraUpdateEntradas ==
    { e @@ o :
        e \in {<<>>} \cup { [estado |-> x] : x \in EstadoEnum \cup {"otro"} },
        o \in {<<>>} \cup { [observaciones |-> "obs"] } }

\* estado: Optional[EstadoEnum]
CompraUpdateValido(data) ==
    "estado" \in DOMAIN data => data["estado"] \in EstadoEnum

\* Mutant: the loop that builds detalles_data skips the first detalle.
DetallesCompraDataSinPrimero(detalles, id) ==
    [i \in 1..(Len(detalles) - 1) |->
        [id_compra |-> id, id_producto |-> detalles[i + 1].id_producto,
         cantidad |-> detalles[i + 1].cantidad]]

\* Mutant: the lines get the identifier of the first purchase instead of the
\* one the header insert returned.
DetallesCompraDataPrimera(detalles, id) ==
    [i \in 1..Len(detalles) |->
        [id_compra |-> 1, id_producto |-> detalles[i].id_producto,
         cantidad |-> detalles[i].cantidad]]

\* detalle_dict["id_compra"] = id_compra for every detalle, in list order.
DetallesCompraData(detalles, id) ==
    [i \in 1..Len(detalles) |->
        [id_compra |-> id, id_producto |-> detalles[i].id_producto,
         cantidad |-> detalles[i].cantidad]]

\* Mutant: the lines get the identifier after the one the header insert
\* returned.
DetallesVentaDataSiguiente(detalles, id) ==
    [i \in 1..Len(detalles) |->
        [id_venta |-> id + 1, id_producto |-> detalles[i].id_producto,
         cantidad |-> detalles[i].cantidad]]

\* detalle_dict["id_venta"] = id_venta for every detalle, in list order.
DetallesVentaData(detalles, id) ==
    [i \in 1..Len(detalles) |->
        [id_venta |-> id, id_producto |-> detalles[i].id_producto,
         cantidad |-> detalles[i].cantidad]]

\* --------------------------------------------------- multi-call handlers
\* Headers in the store plus the creations in flight that have not inserted
\* theirs yet: the model stops taking creations at MaxCabeceras.
EnCurso == { c \in Clientes : pc[c] \in {"cc_compra", "cv_stock", "cv_venta"} }

HayCupo == Len(compra) + Len(venta) + Cardinality(EnCurso) < MaxCabeceras

\* A handler of several store calls starts: the request body passed validation.
Empieza(c, req, paso) ==
    /\ pc' = [pc EXCEPT ![c] = paso]
    /\ peticion' = [peticion EXCEPT ![c] = req]
    /\ idx' = [idx EXCEPT ![c] = 1]
    /\ id_cab' = [id_cab EXCEPT ![c] = 0]
    /\ resp' = [resp EXCEPT ![c] = SinRespuesta]
    /\ llamadas' = [llamadas EXCEPT ![c] = <<>>]
    /\ visto' = [visto EXCEPT ![c] = <<>>]
    /\ solapada' = [solapada EXCEPT ![c] = {}]

\* The handler makes store call ll and goes on to step paso.
Sigue(c, paso, ll) ==
    /\ pc' = [pc EXCEPT ![c] = paso]
    /\ llamadas' = [llamadas EXCEPT ![c] = Append(@, ll)]
    /\ UNCHANGED <<peticion, resp>>

\* The handler makes store call ll and raises or returns: response r.
Fin(c, r, ll) ==
    /\ pc' = [pc EXCEPT ![c] = "done"]
    /\ llamadas' = [llamadas EXCEPT ![c] = Append(@, ll)]
    /\ resp' = [resp EXCEPT ![c] = r]
    /\ UNCHANGED peticion

\* ------------------------------------------------------------ obtener_compra
EsCreacion(c) == peticion[c].op \in {"crear_compra", "crear_venta"}

\* The success status of the aggregate: status_code=201 on the POST routes,
\* 200 on the GET routes.
StatusAgregado(c) == IF EsCreacion(c) THEN 201 ELSE 200

\* obtener_compra, first call: select compra .eq("id_compra", id_compra).
obtener_compra_compra(c) ==
    /\ pc[c] = "oc_compra"
    /\ \/ /\ id_cab[c] \in 1..Len(compra)
          /\ Sigue(c, "oc_detalles", Llamada("compra", "select", "ok"))
       \/ /\ id_cab[c] \notin 1..Len(compra)
          /\ Fin(c, Respuesta(404, "NotFound", 0, <<>>),
                 Llamada("compra", "select", "vacio"))
       \/ Fin(c, Respuesta(500, "InternalError", 0, <<>>),
              Llamada("compra", "select", "error"))
    /\ UNCHANGED <<almacen, idx, id_cab, visto, solapada>>

\* obtener_compra, second call: select detalle_compra .eq("id_compra", id_compra).
obtener_compra_detalles(c) ==
    /\ pc[c] = "oc_detalles"
    /\ \/ Fin(c, Respuesta(StatusAgregado(c), "ok", id_cab[c],
                      SelectSeq(detalle_compra, LAMBDA d : d.id_compra = id_cab[c])),
              Llamada("detalle_compra", "select", "ok"))
       \/ Fin(c, Respuesta(500, "InternalError", 0, <<>>),
              Llamada("detalle_compra", "select", "error"))
    /\ UNCHANGED <<almacen, idx, id_cab, visto, solapada>>

\* GET /api/compras/{id_compra}: the request arrives.
obtener_compra(c) ==
    /\ Libre(c)
    /\ \E id \in 1..(MaxCabeceras + 1) :
        /\ pc' = [pc EXCEPT ![c] = "oc_compra"]
        /\ peticion' = [peticion EXCEPT ![c] = [op |-> "obtener_compra", id |-> id]]
        /\ id_cab' = [id_cab EXCEPT ![c] = id]
    /\ UNCHANGED <<almacen, idx, resp, llamadas, visto, solapada>>

\* -------------------------------------------------------------- crear_compra
\* The request arrives: FastAPI validates the body against CompraCreate.
crear_compra(c) ==
    /\ Libre(c)
    /\ \E detalles \in DetallesEntradas :
        LET req == [op |-> "crear_compra", detalles |-> detalles] IN
        IF ~CompraCreateValido(detalles)
        THEN Termina(c, req, Respuesta(422, "ValidationFailed", 0, <<>>), <<>>)
        ELSE HayCupo /\ Empieza(c, req, "cc_compra")
    /\ UNCHANGED almacen

\* Mutant: the header and its lines are written by one store call.
crear_compra_insertar_todo(c) ==
    /\ pc[c] = "cc_compra"
    /\ \/ /\ compra' = Append(compra, CabeceraNueva)
          /\ detalle_compra' = detalle_compra
                \o DetallesCompraData(peticion[c].detalles, Len(compra) + 1)
          /\ id_cab' = [id_cab EXCEPT ![c] = Len(compra) + 1]
          /\ Sigue(c, "cc_detalles", Llamada("compra", "insert", "ok"))
       \/ /\ Fin(c, Respuesta(400, "CreationFailed", 0, <<>>),
                 Llamada("compra", "insert", "error"))
          /\ UNCHANGED <<compra, detalle_compra, id_cab>>
    /\ UNCHANGED <<referencias, producto, venta, detalle_venta, idx, visto, solapada>>

\* supabase.table("compra").insert(compra_data).execute()
crear_compra_insertar_compra(c) ==
    /\ pc[c] = "cc_compra"
    /\ \/ /\ compra' = Append(compra, CabeceraNueva)
          /\ id_cab' = [id_cab EXCEPT ![c] = Len(compra) + 1]
          /\ Sigue(c, "cc_detalles", Llamada("compra", "insert", "ok"))
       \/ /\ Fin(c, Respuesta(400, "CreationFailed", 0, <<>>),
                 Llamada("compra", "insert", "vacio"))
          /\ UNCHANGED <<compra, id_cab>>
       \/ /\ Fin(c, Respuesta(400, "CreationFailed", 0, <<>>),
                 Llamada("compra", "insert", "error"))
          /\ UNCHANGED <<compra, id_cab>>
    /\ UNCHANGED <<referencias, producto, detalle_compra, venta, detalle_venta, idx, visto, solapada>>

\* Mutant: the detalles are inserted one call each instead of in one batch, so
\* a failure after the first call leaves the first detalle persisted.
crear_compra_insertar_uno_a_uno(c) ==
    /\ pc[c] = "cc_detalles"
    /\ LET detalles_data == DetallesCompraData(peticion[c].detalles, id_cab[c]) IN
        \/ /\ detalle_compra' = detalle_compra \o detalles_data
           /\ Sigue(c, "oc_compra", Llamada("detalle_compra", "insert", "ok"))
        \/ /\ detalle_compra' = Append(detalle_compra, detalles_data[1])
           /\ Fin(c, Respuesta(400, "CreationFailed", 0, <<>>),
                  Llamada("detalle_compra", "insert", "error"))
    /\ UNCHANGED <<referencias, producto, compra, venta, detalle_venta, idx, id_cab, visto, solapada>>

\* supabase.table("detalle_compra").insert(detalles_data).execute()
crear_compra_insertar_detalles(c) ==
    /\ pc[c] = "cc_detalles"
    /\ LET detalles_data == DetallesCompraData(peticion[c].detalles, id_cab[c]) IN
        IF Len(detalles_data) > 0
        THEN \/ /\ detalle_compra' = detalle_compra \o detalles_data
                /\ Sigue(c, "oc_compra", Llamada("detalle_compra", "insert", "ok"))
             \/ /\ Fin(c, Respuesta(400, "CreationFailed", 0, <<>>),
                       Llamada("detalle_compra", "insert", "error"))
                /\ UNCHANGED detalle_compra
        ELSE /\ pc' = [pc EXCEPT ![c] = "oc_compra"]
             /\ UNCHANGED <<detalle_compra, llamadas, peticion, resp>>
    /\ UNCHANGED <<referencias, producto, compra, venta, detalle_venta, idx, id_cab, visto, solapada>>

\* --------------------------------------------------------- actualizar_compra
\* The request arrives: FastAPI validates the body against CompraUpdate, and
\* the handler refuses an update that sets no field before any store call.
actualizar_compra(c) ==
    /\ Libre(c)
    /\ \E id \in 1..(MaxCabeceras + 1), data \in CompraUpdateEntradas :
        LET req == [op |-> "actualizar_compra", id |-> id, campos |-> DOMAIN data] IN
        IF ~CompraUpdateValido(data)
        THEN Termina(c, req, Respuesta(422, "ValidationFailed", 0, <<>>), <<>>)
        ELSE IF ~HayDatos(data)
        THEN Termina(c, req, Respuesta(400, "ValidationFailed", 0, <<>>), <<>>)
        ELSE Empieza(c, [op |-> "actualizar_compra", id |-> id, data |-> data],
                     "ac_update")
    /\ UNCHANGED almacen

\* Mutant: a cancelled purchase is final, its update is refused.
actualizar_compra_update_terminal(c) ==
    /\ pc[c] = "ac_update"
    /\ LET id == peticion[c].id
           data == peticion[c].data
       IN
        \/ /\ id \in 1..Len(compra)
           /\ compra[id]["estado"] # "cancelada"
           /\ compra' = [compra EXCEPT ![id] = AplicarUpdate(@, data)]
           /\ id_cab' = [id_cab EXCEPT ![c] = id]
           /\ Sigue(c, "oc_compra", Llamada("compra", "update", "ok"))
        \/ /\ id \in 1..Len(compra)
           /\ compra[id]["estado"] = "cancelada"
           /\ Fin(c, Respuesta(400, "ValidationFailed", 0, <<>>),
                  Llamada("compra", "select", "ok"))
           /\ UNCHANGED <<compra, id_cab>>
        \/ /\ id \notin 1..Len(compra)
           /\ Fin(c, Respuesta(404, "NotFound", 0, <<>>),
                  Llamada("compra", "update", "vacio"))
           /\ UNCHANGED <<compra, id_cab>>
        \/ /\ Fin(c, Respuesta(500, "InternalError", 0, <<>>),
                  Llamada("compra", "update", "error"))
           /\ UNCHANGED <<compra, id_cab>>
    /\ UNCHANGED <<referencias, producto, detalle_compra, venta, detalle_venta,
                   idx, visto, solapada>>

\* supabase.table("compra").update(data).eq("id_compra", id_compra).execute(),
\* then "return obtener_compra(id_compra)".
actualizar_compra_update(c) ==
    /\ pc[c] = "ac_update"
    /\ LET id == peticion[c].id
           data == peticion[c].data
       IN
        \/ /\ id \in 1..Len(compra)
           /\ compra' = [compra EXCEPT ![id] = AplicarUpdate(@, data)]
           /\ id_cab' = [id_cab EXCEPT ![c] = id]
           /\ Sigue(c, "oc_compra", Llamada("compra", "update", "ok"))
        \/ /\ id \notin 1..Len(compra)
           /\ Fin(c, Respuesta(404, "NotFound", 0, <<>>),
                  Llamada("compra", "update", "vacio"))
           /\ UNCHANGED <<compra, id_cab>>
        \/ /\ Fin(c, Respuesta(500, "InternalError", 0, <<>>),
                  Llamada("compra", "update", "error"))
           /\ UNCHANGED <<compra, id_cab>>
    /\ UNCHANGED <<referencias, producto, detalle_compra, venta, detalle_venta,
                   idx, visto, solapada>>

\* ----------------------------------------------------------- cancelar_compra
\* Mutant: cancelling also removes the purchase's lines.
cancelar_compra_con_lineas(c) ==
    /\ Libre(c)
    /\ \E id \in 1..(MaxCabeceras + 1) :
        LET req == [op |-> "cancelar_compra", id |-> id] IN
        \/ /\ id \in 1..Len(compra)
           /\ compra' = [compra EXCEPT ![id] = AplicarUpdate(@, [estado |-> "cancelada"])]
           /\ detalle_compra' = SelectSeq(detalle_compra, LAMBDA d : d.id_compra # id)
           /\ Termina(c, req, Respuesta(200, "ok", id, <<>>),
                      <<Llamada("compra", "update", "ok")>>)
        \/ /\ id \notin 1..Len(compra)
           /\ Termina(c, req, Respuesta(404, "NotFound", 0, <<>>),
                      <<Llamada("compra", "update", "vacio")>>)
           /\ UNCHANGED <<compra, detalle_compra>>
    /\ UNCHANGED <<referencias, producto, venta, detalle_venta>>

\* update({"estado": "cancelada"}).eq("id_compra", id_compra).execute()
cancelar_compra(c) ==
    /\ Libre(c)
    /\ \E id \in 1..(MaxCabeceras + 1) :
        LET req == [op |-> "cancelar_compra", id |-> id] IN
        \/ /\ id \in 1..Len(compra)
           /\ compra' = [compra EXCEPT ![id] = AplicarUpdate(@, [estado |-> "cancelada"])]
           /\ Termina(c, req, Respuesta(200, "ok", id, <<>>),
                      <<Llamada("compra", "update", "ok")>>)
        \/ /\ id \notin 1..Len(compra)
           /\ Termina(c, req, Respuesta(404, "NotFound", 0, <<>>),
                      <<Llamada("compra", "update", "vacio")>>)
           /\ UNCHANGED compra
        \/ /\ Termina(c, req, Respuesta(500, "InternalError", 0, <<>>),
                      <<Llamada("compra", "update", "error")>>)
           /\ UNCHANGED compra
    /\ UNCHANGED <<referencias, producto, detalle_compra, venta, detalle_venta>>

\* ------------------------------------------------------------- obtener_venta
\* obtener_venta, first call: select venta .eq("id_venta", id_venta).
obtener_venta_venta(c) ==
    /\ pc[c] = "ov_venta"
    /\ \/ /\ id_cab[c] \in 1..Len(venta)
          /\ Sigue(c, "ov_detalles", Llamada("venta", "select", "ok"))
       \/ /\ id_cab[c] \notin 1..Len(venta)
          /\ Fin(c, Respuesta(404, "NotFound", 0, <<>>),
                 Llamada("venta", "select", "vacio"))
       \/ Fin(c, Respuesta(500, "InternalError", 0, <<>>),
              Llamada("venta", "select", "error"))
    /\ UNCHANGED <<almacen, idx, id_cab, visto, solapada>>

\* obtener_venta, second call: select detalle_venta .eq("id_venta", id_venta).
obtener_venta_detalles(c) ==
    /\ pc[c] = "ov_detalles"
    /\ \/ Fin(c, Respuesta(StatusAgregado(c), "ok", id_cab[c],
                      SelectSeq(detalle_venta, LAMBDA d : d.id_venta = id_cab[c])),
              Llamada("detalle_venta", "select", "ok"))
       \/ Fin(c, Respuesta(500, "InternalError", 0, <<>>),
              Llamada("detalle_venta", "select", "error"))
    /\ UNCHANGED <<almacen, idx, id_cab, visto, solapada>>

\* ----------------------------------------------------------- actualizar_venta
\* VentaUpdate bodies: every field is optional; data holds the fields set.
VentaUpdateEntradas ==
    { e @@ o :
        e \in {<<>>} \cup { [estado |-> x] : x \in EstadoEnum },
        o \in {<<>>} \cup { [observaciones |-> "obs"] } }

\* PATCH /api/ventas/{id_venta}: the application registers GET as the only
\* method of this path, VentaUpdate is used by no handler, and the router
\* answers 405 without calling the store.
actualizar_venta(c) ==
    /\ Libre(c)
    /\ \E id \in 1..(MaxCabeceras + 1), data \in VentaUpdateEntradas :
        Termina(c, [op |-> "actualizar_venta", id |-> id, data |-> data],
                Respuesta(405, "MethodNotAllowed", 0, <<>>), <<>>)
    /\ UNCHANGED almacen

\* --------------------------------------------------------------- crear_venta
\* The request arrives: FastAPI validates the body against VentaCreate.
crear_venta(c) ==
    /\ Libre(c)
    /\ \E detalles \in DetallesEntradas :
        LET req == [op |-> "crear_venta", detalles |-> detalles] IN
        IF ~VentaCreateValido(detalles)
        THEN Termina(c, req, Respuesta(422, "ValidationFailed", 0, <<>>), <<>>)
        ELSE HayCupo /\ Empieza(c, req, "cv_stock")
    /\ UNCHANGED almacen

\* Mutant: the comparison is off by one.
StockInsuficientePorDos(stock_actual, cantidad) == stock_actual + 1 < cantidad

\* Mutant: the stock check is missing.
StockInsuficienteNunca(stock_actual, cantidad) == FALSE

\* if stock_actual < detalle.cantidad: raise HTTPException(400, ...)
StockInsuficiente(stock_actual, cantidad) == stock_actual < cantidad

\* Mutant: the loop stops after the first detalle.
PasoTrasVerificarPrimera(i, n) == "cv_venta"

\* "for detalle in venta.detalles": after line i of n passed its checks the
\* loop takes the next line, and after the last one the handler inserts.
PasoTrasVerificar(i, n) == IF i < n THEN "cv_stock" ELSE "cv_venta"

\* One pass of "for detalle in venta.detalles": select producto.stock
\* .eq("id_producto", detalle.id_producto), then the two checks.
crear_venta_verificar_stock(c) ==
    /\ pc[c] = "cv_stock"
    /\ LET detalle == peticion[c].detalles[idx[c]]
           existe == detalle.id_producto \in 1..Len(producto)
           stock_actual == producto[detalle.id_producto]["stock"]
       IN
        \/ /\ ~existe
           /\ Fin(c, Respuesta(404, "ProductNotFound", detalle.id_producto, <<>>),
                  Llamada("producto", "select", "vacio"))
           /\ UNCHANGED <<idx, visto>>
        \/ /\ existe
           /\ StockInsuficiente(stock_actual, detalle.cantidad)
           /\ visto' = [visto EXCEPT ![c] = Append(@, stock_actual)]
           /\ Fin(c, Respuesta(400, "InsufficientStock", detalle.id_producto, <<>>),
                  Llamada("producto", "select", "ok"))
           /\ UNCHANGED idx
        \/ /\ existe
           /\ ~StockInsuficiente(stock_actual, detalle.cantidad)
           /\ visto' = [visto EXCEPT ![c] = Append(@, stock_actual)]
           /\ idx' = [idx EXCEPT ![c] = @ + 1]
           /\ Sigue(c, PasoTrasVerificar(idx[c], Len(peticion[c].detalles)),
                    Llamada("producto", "select", "ok"))
        \/ /\ Fin(c, Respuesta(400, "CreationFailed", 0, <<>>),
                  Llamada("producto", "select", "error"))
           /\ UNCHANGED <<idx, visto>>
    /\ UNCHANGED <<almacen, id_cab, solapada>>

\* Mutant: a header insert that raises is tried again.
crear_venta_insertar_venta_reintenta(c) ==
    /\ pc[c] = "cv_venta"
    /\ \/ /\ venta' = Append(venta, CabeceraNueva)
          /\ id_cab' = [id_cab EXCEPT ![c] = Len(venta) + 1]
          /\ solapada' = [solapada EXCEPT
                            ![c] = { o \in Clientes \ {c} : pc[o] = "cv_venta" }]
          /\ Sigue(c, "cv_detalles", Llamada("venta", "insert", "ok"))
       \/ /\ Len(llamadas[c]) <= MaxLineas
          /\ Sigue(c, "cv_venta", Llamada("venta", "insert", "error"))
          /\ UNCHANGED <<venta, id_cab, solapada>>
       \/ /\ Fin(c, Respuesta(400, "CreationFailed", 0, <<>>),
                 Llamada("venta", "insert", "error"))
          /\ UNCHANGED <<venta, id_cab, solapada>>
    /\ UNCHANGED <<referencias, producto, compra, detalle_compra, detalle_venta, idx, visto>>

\* supabase.table("venta").insert(venta_data).execute()
crear_venta_insertar_venta(c) ==
    /\ pc[c] = "cv_venta"
    /\ \/ /\ venta' = Append(venta, CabeceraNueva)
          /\ id_cab' = [id_cab EXCEPT ![c] = Len(venta) + 1]
          /\ solapada' = [solapada EXCEPT
                            ![c] = { o \in Clientes \ {c} : pc[o] = "cv_venta" }]
          /\ Sigue(c, "cv_detalles", Llamada("venta", "insert", "ok"))
       \/ /\ Fin(c, Respuesta(400, "CreationFailed", 0, <<>>),
                 Llamada("venta", "insert", "vacio"))
          /\ UNCHANGED <<venta, id_cab, solapada>>
       \/ /\ Fin(c, Respuesta(400, "CreationFailed", 0, <<>>),
                 Llamada("venta", "insert", "error"))
          /\ UNCHANGED <<venta, id_cab, solapada>>
    /\ UNCHANGED <<referencias, producto, compra, detalle_compra, detalle_venta, idx, visto>>

\* Mutant: the batch insert of the lines also takes the first line's cantidad
\* off its product's stock.
crear_venta_insertar_detalles_descuenta(c) ==
    /\ pc[c] = "cv_detalles"
    /\ LET detalles_data == DetallesVentaData(peticion[c].detalles, id_cab[c])
           p == detalles_data[1].id_producto
       IN
        \/ /\ detalle_venta' = detalle_venta \o detalles_data
           /\ producto' = IF p \in 1..Len(producto)
                            THEN [producto EXCEPT ![p]["stock"] =
                                     @ - detalles_data[1].cantidad]
                            ELSE producto
           /\ Sigue(c, "ov_venta", Llamada("detalle_venta", "insert", "ok"))
        \/ /\ Fin(c, Respuesta(400, "CreationFailed", 0, <<>>),
                  Llamada("detalle_venta", "insert", "error"))
           /\ UNCHANGED <<detalle_venta, producto>>
    /\ UNCHANGED <<referencias, compra, detalle_compra, venta, idx, id_cab, visto, solapada>>

\* supabase.table("detalle_venta").insert(detalles_data).execute()
crear_venta_insertar_detalles(c) ==
    /\ pc[c] = "cv_detalles"
    /\ LET detalles_data == DetallesVentaData(peticion[c].detalles, id_cab[c]) IN
        IF Len(detalles_data) > 0
        THEN \/ /\ detalle_venta' = detalle_venta \o detalles_data
                /\ Sigue(c, "ov_venta", Llamada("detalle_venta", "insert", "ok"))
             \/ /\ Fin(c, Respuesta(400, "CreationFailed", 0, <<>>),
                       Llamada("detalle_venta", "insert", "error"))
                /\ UNCHANGED detalle_venta
        ELSE /\ pc' = [pc EXCEPT ![c] = "ov_venta"]
             /\ UNCHANGED <<detalle_venta, llamadas, peticion, resp>>
    /\ UNCHANGED <<referencias, producto, compra, detalle_compra, venta, idx, id_cab, visto, solapada>>

\* ---------------------------------------------------------- listar_productos
\* limit: int = Query(100, ge=1, le=1000)
LimitDefault == 100
LimitMax == 1000

\* A producto row with the fields listar_productos filters and orders by;
\* nombre is a number that stands for the name's place in the store's order.
FilaListado(n, s, m, a) ==
    [nombre |-> n, stock |-> s, stock_minimo |-> m, activo |-> a]

FilasListado ==
    { FilaListado(n, s, m, a) :
        n \in 1..MaxNombre, s \in 0..MaxStock, m \in 0..MaxStock, a \in BOOLEAN }

\* The query parameters a client may send (valid and invalid); limit absent
\* is limit = LimitDefault, activo / stock_bajo absent is "none".
ListarEntradas ==
    [activo : {"none", "true", "false"},
     stock_bajo : {"none", "true", "false"},
     skip : -1..MaxFilas,
     limit : {0, 1, 2, LimitDefault, LimitMax, LimitMax + 1}]

\* skip: Query(0, ge=0); limit: Query(100, ge=1, le=1000)
ListarValido(q) == q.skip >= 0 /\ q.limit >= 1 /\ q.limit <= LimitMax

\* if activo is not None: query = query.eq("activo", activo)
PasaFiltros(fila, q) ==
    \/ q.activo = "none"
    \/ q.activo = "true" /\ fila["activo"]
    \/ q.activo = "false" /\ ~fila["activo"]

\* query.order("nombre"): the rows that pass the filters in any order that
\* is ascending by nombre (rows of equal nombre come in any order).
Ordenados(tabla, q) ==
    LET ids == { i \in 1..Len(tabla) : PasaFiltros(tabla[i], q) }
        n == Cardinality(ids)
    IN  { o \in [1..n -> ids] :
            /\ \A j, k \in 1..n : j # k => o[j] # o[k]
            /\ \A j, k \in 1..n : j < k => tabla[o[j]]["nombre"] <= tabla[o[k]]["nombre"] }

Menor(a, b) == IF a <= b THEN a ELSE b

\* .range(skip, skip + limit - 1): bounds are zero-based and inclusive.
Rango(orden, skip, limit) ==
    SubSeq(orden, skip + 1, Menor(skip + limit, Len(orden)))

\* Mutant: the low-stock filter is part of the query, ahead of the range.
ListadoFiltroPrimero(tabla, orden, q) ==
    IF q.stock_bajo = "true"
    THEN Rango(SelectSeq(orden, LAMBDA i : EsStockBajo(tabla[i])), q.skip, q.limit)
    ELSE Rango(orden, q.skip, q.limit)

\* productos = response.data; if stock_bajo: productos = [p for p in
\* productos if p["stock"] <= p["stock_minimo"]]. The result is given by the
\* identifiers of the rows, in order.
Listado(tabla, orden, q) ==
    LET productos == Rango(orden, q.skip, q.limit) IN
    IF q.stock_bajo = "true"
    THEN SelectSeq(productos, LAMBDA i : EsStockBajo(tabla[i]))
    ELSE productos

listar_productos(c) ==
    /\ Libre(c)
    /\ \E q \in ListarEntradas :
        IF ~ListarValido(q)
        THEN Termina(c, [op |-> "listar_productos"],
                     Respuesta(422, "ValidationFailed", 0, <<>>), <<>>)
        ELSE LET req == [op |-> "listar_productos", q |-> q] IN
             \/ \E orden \in Ordenados(producto, q) :
                    Termina(c, req, Respuesta(200, "ok", 0, Listado(producto, orden, q)),
                            <<Llamada("producto", "select", "ok")>>)
             \/ Termina(c, req, Respuesta(500, "InternalError", 0, <<>>),
                        <<Llamada("producto", "select", "error")>>)
    /\ UNCHANGED almacen

\* ------------------------------------------------------------ specifications
InitLocales ==
    /\ pc = [c \in Clientes |-> "idle"]
    /\ peticion = [c \in Clientes |-> [op |-> "ninguna"]]
    /\ idx = [c \in Clientes |-> 0]
    /\ id_cab = [c \in Clientes |-> 0]
    /\ resp = [c \in Clientes |-> SinRespuesta]
    /\ llamadas = [c \in Clientes |-> <<>>]
    /\ visto = [c \in Clientes |-> <<>>]
    /\ solapada = [c \in Clientes |-> {}]

\* The product endpoints over an initially empty store.
InitProducto ==
    /\ categoria = <<>>
    /\ proveedor = <<>>
    /\ cliente = <<>>
    /\ producto = <<>>
    /\ compra = <<>>
    /\ detalle_compra = <<>>
    /\ venta = <<>>
    /\ detalle_venta = <<>>
    /\ InitLocales

NextProducto ==
    \E c \in {Primero} :
        \/ crear_producto(c)
        \/ actualizar_producto(c)
        \/ eliminar_producto(c)
        \/ productos_stock_bajo(c)
        \/ responder(c)

SpecProducto == InitProducto /\ [][NextProducto]_vars

\* Order entry by concurrent clients over a store that holds products.
TablasProducto ==
    SeqHasta({ FilaProducto(s, 0, TRUE) : s \in 0..MaxStock }, MaxProductos)

InitOrden ==
    /\ categoria = <<>>
    /\ proveedor = <<>>
    /\ cliente = <<>>
    /\ producto \in TablasProducto
    /\ compra = <<>>
    /\ detalle_compra = <<>>
    /\ venta = <<>>
    /\ detalle_venta = <<>>
    /\ InitLocales

NextOrden ==
    \E c \in Clientes :
        \/ crear_compra(c)
        \/ crear_compra_insertar_compra(c)
        \/ crear_compra_insertar_detalles(c)
        \/ obtener_compra_compra(c)
        \/ obtener_compra_detalles(c)
        \/ crear_venta(c)
        \/ crear_venta_verificar_stock(c)
        \/ crear_venta_insertar_venta(c)
        \/ crear_venta_insertar_detalles(c)
        \/ obtener_venta_venta(c)
        \/ obtener_venta_detalles(c)
        \/ responder(c)

SpecOrden == InitOrden /\ [][NextOrden]_vars

\* Sales by concurrent clients while products are created and updated.
NextVenta ==
    \E c \in Clientes :
        \/ crear_venta(c)
        \/ crear_venta_verificar_stock(c)
        \/ crear_venta_insertar_venta(c)
        \/ crear_venta_insertar_detalles(c)
        \/ obtener_venta_venta(c)
        \/ obtener_venta_detalles(c)
        \/ crear_producto(c)
        \/ actualizar_producto(c)
        \/ responder(c)

SpecVenta == InitOrden /\ [][NextVenta]_vars

\* The maintenance endpoints (create, update, deactivate, cancel) served one
\* request at a time, over an empty store or a store that holds a product, a
\* purchase and a sale of one line each.
UnaLinea == <<[id_producto |-> 1, cantidad |-> 1]>>

InitMantenimiento ==
    /\ categoria = <<>>
    /\ proveedor = <<>>
    /\ cliente = <<>>
    /\ \/ /\ producto = <<>>
          /\ compra = <<>>
          /\ detalle_compra = <<>>
          /\ venta = <<>>
          /\ detalle_venta = <<>>
       \/ /\ producto = <<FilaProducto(1, 0, TRUE)>>
          /\ compra = <<CabeceraNueva>>
          /\ detalle_compra = DetallesCompraData(UnaLinea, 1)
          /\ venta = <<CabeceraNueva>>
          /\ detalle_venta = DetallesVentaData(UnaLinea, 1)
    /\ InitLocales

NextMantenimiento ==
    \E c \in {Primero} :
        \/ crear_categoria(c)
        \/ actualizar_categoria(c)
        \/ eliminar_categoria(c)
        \/ crear_proveedor(c)
        \/ actualizar_proveedor(c)
        \/ eliminar_proveedor(c)
        \/ crear_cliente(c)
        \/ actualizar_cliente(c)
        \/ eliminar_cliente(c)
        \/ crear_producto(c)
        \/ actualizar_producto(c)
        \/ eliminar_producto(c)
        \/ actualizar_compra(c)
        \/ actualizar_compra_update(c)
        \/ obtener_compra_compra(c)
        \/ obtener_compra_detalles(c)
        \/ cancelar_compra(c)
        \/ actualizar_venta(c)
        \/ responder(c)

SpecMantenimiento == InitMantenimiento /\ [][NextMantenimiento]_vars

\* Every order endpoint, and the deactivation of products, served one request
\* at a time.
NextPedidos ==
    \E c \in {Primero} :
        \/ crear_compra(c)
        \/ crear_compra_insertar_compra(c)
        \/ crear_compra_insertar_detalles(c)
        \/ obtener_compra(c)
        \/ obtener_compra_compra(c)
        \/ obtener_compra_detalles(c)
        \/ actualizar_compra(c)
        \/ actualizar_compra_update(c)
        \/ cancelar_compra(c)
        \/ crear_venta(c)
        \/ crear_venta_verificar_stock(c)
        \/ crear_venta_insertar_venta(c)
        \/ crear_venta_insertar_detalles(c)
        \/ obtener_venta_venta(c)
        \/ obtener_venta_detalles(c)
        \/ actualizar_venta(c)
        \/ eliminar_producto(c)
        \/ responder(c)

SpecPedidos == InitOrden /\ [][NextPedidos]_vars

\* Purchases created by concurrent clients while one of them also reads and
\* cancels purchases.
NextCompra ==
    \/ \E c \in Clientes :
        \/ crear_compra(c)
        \/ crear_compra_insertar_compra(c)
        \/ crear_compra_insertar_detalles(c)
        \/ obtener_compra_compra(c)
        \/ obtener_compra_detalles(c)
        \/ responder(c)
    \/ \E c \in {Primero} :
        \/ obtener_compra(c)
        \/ cancelar_compra(c)

SpecCompra == InitProducto /\ [][NextCompra]_vars

\* The status of purchases changed by concurrent clients: the store holds a
\* product and up to MaxCabeceras purchases of one line each, as crear_compra
\* left them.
InitEstado ==
    /\ categoria = <<>>
    /\ proveedor = <<>>
    /\ cliente = <<>>
    /\ producto = <<FilaProducto(1, 0, TRUE)>>
    /\ \E n \in 0..MaxCabeceras :
        /\ compra = [i \in 1..n |-> CabeceraNueva]
        /\ detalle_compra = [i \in 1..n |-> DetallesCompraData(UnaLinea, i)[1]]
    /\ venta = <<>>
    /\ detalle_venta = <<>>
    /\ InitLocales

NextEstado ==
    \E c \in Clientes :
        \/ actualizar_compra(c)
        \/ actualizar_compra_update(c)
        \/ obtener_compra_compra(c)
        \/ obtener_compra_detalles(c)
        \/ cancelar_compra(c)
        \/ responder(c)

SpecEstado == InitEstado /\ [][NextEstado]_vars

\* The product listing over stores of up to MaxFilas products.
InitListar ==
    /\ categoria = <<>>
    /\ proveedor = <<>>
    /\ cliente = <<>>
    /\ producto \in SeqHasta(FilasListado, MaxFilas)
    /\ compra = <<>>
    /\ detalle_compra = <<>>
    /\ venta = <<>>
    /\ detalle_venta = <<>>
    /\ InitLocales

NextListar ==
    \E c \in {Primero} :
        \/ listar_productos(c)
        \/ responder(c)

SpecListar == InitListar /\ [][NextListar]_vars

\* ===================================================================== claims
NumLlamadas(ll, tabla, op, res) ==
    Len(SelectSeq(ll, LAMBDA l : l = Llamada(tabla, op, res)))

HaceLlamada(ll, tabla, op, res) == NumLlamadas(ll, tabla, op, res) > 0

MismasLineas(filas, detalles) ==
    /\ Len(filas) = Len(detalles)
    /\ \A i \in 1..Len(filas) :
        /\ filas[i].id_producto = detalles[i].id_producto
        /\ filas[i].cantidad = detalles[i].cantidad

Ultima(ll) == ll[Len(ll)]

EsVenta(c) == peticion[c].op = "crear_venta"

HaceInsert(ll) == \E k \in 1..Len(ll) : ll[k].op = "insert"

\* The position of the first insert among a request's store calls.
PosInsert(ll) ==
    CHOOSE k \in 1..Len(ll) :
        /\ ll[k].op = "insert"
        /\ \A j \in 1..(k - 1) : ll[j].op # "insert"

RECURSIVE TotalProducto(_, _)
\* The total cantidad of the lines of detalles that reference product p.
TotalProducto(detalles, p) ==
    IF Len(detalles) = 0 THEN 0
    ELSE (IF Head(detalles).id_producto = p THEN Head(detalles).cantidad ELSE 0)
            + TotalProducto(Tail(detalles), p)

\* C1: a crear_compra / crear_venta request with N >= 1 lines that succeeds
\* (201) made exactly one header insert and one batch insert; the store then
\* holds its header and exactly N line rows carrying that header's identifier,
\* equal to the request's lines in order, and the returned aggregate is
\* exactly those N rows.
C1_AgregadoCompleto ==
    \A c \in Clientes :
        (pc[c] = "done" /\ EsCreacion(c) /\ resp[c].status = 201) =>
            LET detalles == peticion[c].detalles
                id == resp[c].id
            IN  /\ Len(detalles) >= 1
                /\ id = id_cab[c]
                /\ IF peticion[c].op = "crear_compra"
                   THEN LET filas == SelectSeq(detalle_compra,
                                               LAMBDA d : d.id_compra = id)
                        IN  /\ id \in 1..Len(compra)
                            /\ NumLlamadas(llamadas[c], "compra", "insert", "ok") = 1
                            /\ NumLlamadas(llamadas[c], "detalle_compra", "insert", "ok") = 1
                            /\ MismasLineas(filas, detalles)
                            /\ resp[c].datos = filas
                   ELSE LET filas == SelectSeq(detalle_venta,
                                               LAMBDA d : d.id_venta = id)
                        IN  /\ id \in 1..Len(venta)
                            /\ NumLlamadas(llamadas[c], "venta", "insert", "ok") = 1
                            /\ NumLlamadas(llamadas[c], "detalle_venta", "insert", "ok") = 1
                            /\ MismasLineas(filas, detalles)
                            /\ resp[c].datos = filas

\* C1 witness: a purchase of two lines is returned with status 201 while the
\* store also holds a sale.
C1_Witness ==
    \E c \in Clientes :
        /\ pc[c] = "done"
        /\ peticion[c].op = "crear_compra"
        /\ resp[c].status = 201
        /\ Len(resp[c].datos) = 2
        /\ Len(detalle_venta) > 0

\* C2: whenever the pre-check of a crear_venta request reads, for a line, a
\* stock below the line's cantidad, the request ends in that step with
\* InsufficientStock (400); it has made no insert, holds no header, and the
\* step leaves every table, the product's stock included, as it was.
C2_StockInsuficienteRechaza ==
    [][\A c \in Clientes :
        (/\ pc[c] = "cv_stock"
         /\ Len(visto'[c]) = Len(visto[c]) + 1
         /\ Ultima(visto'[c]) < peticion[c].detalles[idx[c]].cantidad) =>
            /\ pc'[c] = "done"
            /\ resp'[c].status = 400
            /\ resp'[c].error = "InsufficientStock"
            /\ ~HaceInsert(llamadas'[c])
            /\ id_cab'[c] = 0
            /\ almacen' = almacen]_vars

\* C2 witness: a sale of two lines was refused with InsufficientStock on its
\* second line.
C2_Witness ==
    \E c \in Clientes :
        /\ pc[c] = "done"
        /\ EsVenta(c)
        /\ resp[c].error = "InsufficientStock"
        /\ Len(visto[c]) = 2
        /\ visto[c][2] < peticion[c].detalles[2].cantidad

\* C3: in every reachable state every product's stock is >= 0.
C3_StockNoNegativo ==
    \A i \in 1..Len(producto) : producto[i]["stock"] >= 0

\* C3 witness: a sale's line is in the store and the stock of its product,
\* updated meanwhile, is 0.
C3_Witness ==
    /\ Len(detalle_venta) > 0
    /\ detalle_venta[1].id_producto \in 1..Len(producto)
    /\ producto[detalle_venta[1].id_producto]["stock"] = 0

\* C4: a sale that has inserted its header was checked only line by line
\* against the stock its own pre-check read: every line's cantidad is <= the
\* stock read for it, and the request reads producto no more once it writes
\* (the check is not repeated at write time). The witness is the joint
\* overdraw this allows.
C4_SoloVerificacionPropia ==
    \A c \in Clientes :
        (EsVenta(c) /\ HaceInsert(llamadas[c])) =>
            /\ Len(visto[c]) = Len(peticion[c].detalles)
            /\ \A i \in 1..Len(visto[c]) :
                peticion[c].detalles[i].cantidad <= visto[c][i]
            /\ \A k \in PosInsert(llamadas[c])..Len(llamadas[c]) :
                llamadas[c][k].tabla # "producto"

\* C4 witness: two sales of the same product were both past their pre-check
\* before either inserted, both were persisted and returned 201, and their
\* quantities together exceed the stock each of them read.
C4_Witness ==
    \E c \in Clientes, o \in Clientes :
        /\ c # o
        /\ o \in solapada[c]
        /\ pc[c] = "done" /\ EsVenta(c) /\ resp[c].status = 201
        /\ pc[o] = "done" /\ EsVenta(o) /\ resp[o].status = 201
        /\ Len(resp[c].datos) >= 1 /\ Len(resp[o].datos) >= 1
        /\ peticion[c].detalles[1].id_producto = peticion[o].detalles[1].id_producto
        /\ peticion[c].detalles[1].cantidad + peticion[o].detalles[1].cantidad
              > visto[c][1]
        /\ peticion[c].detalles[1].cantidad + peticion[o].detalles[1].cantidad
              > visto[o][1]

\* C5 (as claimed): a crear_venta request whose lines referencing one product
\* total more than the stock its pre-check read for that product fails with
\* InsufficientStock and persists nothing.
C5_TotalPorProducto ==
    \A c \in Clientes :
        (/\ EsVenta(c)
         /\ Len(visto[c]) = Len(peticion[c].detalles)
         /\ \E i \in 1..Len(visto[c]) :
                TotalProducto(peticion[c].detalles,
                              peticion[c].detalles[i].id_producto) > visto[c][i]) =>
            /\ pc[c] = "done"
            /\ resp[c].error = "InsufficientStock"
            /\ ~HaceInsert(llamadas[c])

\* C6: a crear_compra / crear_venta request whose detalles list is empty ends
\* at once with a validation failure, having made no store call, and the
\* store is as it was.
C6_ListaVaciaRechazada ==
    [][\A c \in Clientes :
        (pc[c] = "idle" /\ pc'[c] # "idle" /\ EsCreacion(c)'
            /\ Len(peticion'[c].detalles) = 0) =>
            /\ pc'[c] = "done"
            /\ resp'[c].status = 422
            /\ resp'[c].error = "ValidationFailed"
            /\ llamadas'[c] = <<>>
            /\ almacen' = almacen]_vars

\* C6 witness: a purchase with no lines has been answered.
C6_Witness ==
    \E c \in Clientes :
        /\ pc[c] = "done"
        /\ peticion[c].op = "crear_compra"
        /\ Len(peticion[c].detalles) = 0
        /\ resp[c].error = "ValidationFailed"

\* C7: in crear_venta no insert is made until every line, in list order, was
\* read from producto and found with stock >= cantidad; the first line that
\* fails ends the request, with ProductNotFound (404) when its product is
\* absent and InsufficientStock (400) when its stock is too low, every
\* earlier line having passed, and nothing is inserted.
C7_VerificacionAntesDeEscritura ==
    \A c \in Clientes :
        EsVenta(c) =>
            LET d == peticion[c].detalles
                ll == llamadas[c]
                v == visto[c]
                Pasa(i) == ll[i] = Llamada("producto", "select", "ok")
                              /\ v[i] >= d[i].cantidad
            IN  /\ HaceInsert(ll) =>
                    /\ Len(v) = Len(d)
                    /\ PosInsert(ll) = Len(d) + 1
                    /\ \A i \in 1..Len(d) : Pasa(i)
                /\ resp[c].error = "ProductNotFound" =>
                    /\ pc[c] = "done"
                    /\ resp[c].status = 404
                    /\ Len(ll) = Len(v) + 1
                    /\ Ultima(ll) = Llamada("producto", "select", "vacio")
                    /\ resp[c].id = d[Len(ll)].id_producto
                    /\ \A i \in 1..(Len(ll) - 1) : Pasa(i)
                    /\ id_cab[c] = 0
                /\ resp[c].error = "InsufficientStock" =>
                    /\ pc[c] = "done"
                    /\ resp[c].status = 400
                    /\ Len(ll) = Len(v)
                    /\ Ultima(ll) = Llamada("producto", "select", "ok")
                    /\ Ultima(v) < d[Len(ll)].cantidad
                    /\ resp[c].id = d[Len(ll)].id_producto
                    /\ \A i \in 1..(Len(ll) - 1) : Pasa(i)
                    /\ id_cab[c] = 0

\* C7 witness: a sale whose first line lacks stock and whose second line names
\* an absent product was decided by the first line: InsufficientStock.
C7_Witness ==
    \E c \in Clientes :
        /\ pc[c] = "done"
        /\ EsVenta(c)
        /\ Len(peticion[c].detalles) = 2
        /\ peticion[c].detalles[2].id_producto \notin 1..Len(producto)
        /\ resp[c].error = "InsufficientStock"
        /\ Len(llamadas[c]) = 1

\* C8: when the batch insert of lines fails after the header insert succeeded,
\* that failed call is the request's last store call (no compensating call),
\* the response is an error (400), and the header row is in the store with no
\* line row under it.
C8_CabeceraHuerfana ==
    \A c \in Clientes :
        /\ HaceLlamada(llamadas[c], "detalle_compra", "insert", "error") =>
            /\ pc[c] = "done"
            /\ Ultima(llamadas[c]) = Llamada("detalle_compra", "insert", "error")
            /\ resp[c].status = 400
            /\ id_cab[c] \in 1..Len(compra)
            /\ SelectSeq(detalle_compra, LAMBDA d : d.id_compra = id_cab[c]) = <<>>
        /\ HaceLlamada(llamadas[c], "detalle_venta", "insert", "error") =>
            /\ pc[c] = "done"
            /\ Ultima(llamadas[c]) = Llamada("detalle_venta", "insert", "error")
            /\ resp[c].status = 400
            /\ id_cab[c] \in 1..Len(venta)
            /\ SelectSeq(detalle_venta, LAMBDA d : d.id_venta = id_cab[c]) = <<>>

\* C8 witness: a purchase of two lines ended on the failed batch insert: its
\* header is orphaned.
C8_Witness ==
    \E c \in Clientes :
        /\ pc[c] = "done"
        /\ peticion[c].op = "crear_compra"
        /\ Len(peticion[c].detalles) = 2
        /\ HaceLlamada(llamadas[c], "detalle_compra", "insert", "error")
        /\ id_cab[c] \in 1..Len(compra)

\* C9 (as claimed): in crear_compra a header insert that yields no row, and a
\* store error at any step (header insert, batch insert, re-read), surface as
\* CreationFailed (400), never as another error category.
C9_TodoErrorEsCreationFailed ==
    \A c \in Clientes :
        (/\ pc[c] = "done"
         /\ peticion[c].op = "crear_compra"
         /\ \E i \in 1..Len(llamadas[c]) :
                \/ llamadas[c][i].res = "error"
                \/ llamadas[c][i] = Llamada("compra", "insert", "vacio")) =>
            /\ resp[c].status = 400
            /\ resp[c].error = "CreationFailed"

\* C10: productos_stock_bajo returns exactly one record for each product that
\* is active with stock <= stock_minimo and no other record; each record's
\* diferencia is stock_minimo - stock and is >= 0; the call changes no table.
C10_ReporteExacto ==
    [][\A c \in Clientes :
        (pc[c] = "idle" /\ pc'[c] = "done"
            /\ peticion'[c].op = "productos_stock_bajo") =>
            /\ almacen' = almacen
            /\ resp'[c].status = 200 =>
                LET datos == resp'[c].datos IN
                /\ \A i \in 1..Len(producto) :
                    Cardinality({ k \in 1..Len(datos) : datos[k].id_producto = i })
                        = IF producto[i]["activo"]
                              /\ producto[i]["stock"] <= producto[i]["stock_minimo"]
                          THEN 1 ELSE 0
                /\ \A k \in 1..Len(datos) :
                    /\ datos[k].id_producto \in 1..Len(producto)
                    /\ datos[k].stock_actual = producto[datos[k].id_producto]["stock"]
                    /\ datos[k].diferencia =
                          producto[datos[k].id_producto]["stock_minimo"]
                              - producto[datos[k].id_producto]["stock"]
                    /\ datos[k].diferencia >= 0]_vars

\* C10 witness: the report lists a product whose stock is below its minimum.
C10_Witness ==
    \E c \in Clientes :
        /\ pc[c] = "done"
        /\ peticion[c].op = "productos_stock_bajo"
        /\ resp[c].status = 200
        /\ Len(resp[c].datos) >= 1
        /\ resp[c].datos[1].diferencia >= 1

\* The fields a PATCH request sets.
CamposDe(req) == IF "campos" \in DOMAIN req THEN req.campos ELSE DOMAIN req.data

OpsActualizar ==
    {"actualizar_categoria", "actualizar_proveedor", "actualizar_cliente",
     "actualizar_producto", "actualizar_compra"}

\* C11: an update request (categoria, proveedor, cliente, producto, compra)
\* that sets no field ends at once with a validation error (400), whether or
\* not its id names a row; it makes no store call and the store is as it was.
C11_UpdateVacioRechazado ==
    [][\A c \in Clientes :
        (/\ pc[c] = "idle" /\ pc'[c] # "idle"
         /\ peticion'[c].op \in OpsActualizar
         /\ CamposDe(peticion'[c]) = {}) =>
            /\ pc'[c] = "done"
            /\ resp'[c].status = 400
            /\ resp'[c].error = "ValidationFailed"
            /\ llamadas'[c] = <<>>
            /\ almacen' = almacen]_vars

\* C11 witness: an empty update of an existing purchase was refused with 400.
C11_Witness ==
    \E c \in Clientes :
        /\ pc[c] = "done"
        /\ peticion[c].op = "actualizar_compra"
        /\ peticion[c].id \in 1..Len(compra)
        /\ CamposDe(peticion[c]) = {}
        /\ resp[c].status = 400
        /\ llamadas[c] = <<>>

\* The store call of an update of purchase headers: the row named by the id
\* gets exactly the fields of the request and every other row of every table
\* stays; an id that names no row gives NotFound and changes nothing.
UpdateCompraExacto(c) ==
    (pc[c] = "ac_update" /\ pc'[c] # "ac_update"
        /\ Ultima(llamadas'[c]).res # "error") =>
        LET id == peticion[c].id
            data == peticion[c].data
        IN  IF id \in 1..Len(compra)
            THEN /\ Len(compra') = Len(compra)
                 /\ \A f \in DOMAIN compra[id] :
                        compra'[id][f] = IF f \in DOMAIN data THEN data[f]
                                                              ELSE compra[id][f]
                 /\ \A i \in 1..Len(compra) : i # id => compra'[i] = compra[i]
                 /\ UNCHANGED <<referencias, producto, detalle_compra, venta,
                                detalle_venta>>
            ELSE /\ pc'[c] = "done"
                 /\ resp'[c].status = 404
                 /\ resp'[c].error = "NotFound"
                 /\ almacen' = almacen

\* The same for an update of sale headers.
UpdateVentaExacto(c) ==
    (pc[c] = "idle" /\ pc'[c] # "idle" /\ peticion'[c].op = "actualizar_venta"
        /\ CamposDe(peticion'[c]) # {}) =>
        LET id == peticion'[c].id
            data == peticion'[c].data
        IN  IF id \in 1..Len(venta)
            THEN /\ Len(venta') = Len(venta)
                 /\ \A f \in DOMAIN venta[id] :
                        venta'[id][f] = IF f \in DOMAIN data THEN data[f]
                                                             ELSE venta[id][f]
                 /\ \A i \in 1..Len(venta) : i # id => venta'[i] = venta[i]
                 /\ UNCHANGED <<referencias, producto, compra, detalle_compra,
                                detalle_venta>>
            ELSE /\ pc'[c] = "done"
                 /\ resp'[c].status = 404
                 /\ resp'[c].error = "NotFound"
                 /\ almacen' = almacen

\* C12 (as claimed): update_header on an existing purchase or sale header
\* changes exactly the fields provided and leaves every other header field,
\* every line row and every other row unchanged; on an id that matches no row
\* it fails with NotFound and changes nothing.
C12_UpdateCabecera ==
    [][\A c \in Clientes : UpdateCompraExacto(c) /\ UpdateVentaExacto(c)]_vars

OpsEliminar ==
    {"eliminar_categoria", "eliminar_proveedor", "eliminar_cliente",
     "eliminar_producto"}

\* The table a deactivation addresses.
TablaDe(op) ==
    CASE op = "eliminar_categoria" -> categoria
      [] op = "eliminar_proveedor" -> proveedor
      [] op = "eliminar_cliente" -> cliente
      [] op = "eliminar_producto" -> producto

\* The same table after the step.
TablaDespuesDe(op) ==
    CASE op = "eliminar_categoria" -> categoria'
      [] op = "eliminar_proveedor" -> proveedor'
      [] op = "eliminar_cliente" -> cliente'
      [] op = "eliminar_producto" -> producto'

\* C13: a deactivation (categoria, proveedor, cliente, producto) of an
\* existing id succeeds whether the row is active or already inactive, and
\* leaves the row with activo = false, its other fields, the other rows and
\* the other tables as they were; on a row already inactive it changes
\* nothing at all, so two calls leave the state one call leaves. On an absent
\* id it fails with NotFound and changes nothing.
C13_DesactivarIdempotente ==
    [][\A c \in Clientes :
        (/\ pc[c] = "idle" /\ pc'[c] # "idle"
         /\ peticion'[c].op \in OpsEliminar
         /\ Ultima(llamadas'[c]).res # "error") =>
            LET op == peticion'[c].op
                id == peticion'[c].id
                antes == TablaDe(op)
                despues == TablaDespuesDe(op)
            IN  IF id \in 1..Len(antes)
                THEN /\ resp'[c].status = 200
                     /\ Len(despues) = Len(antes)
                     /\ despues[id]["activo"] = FALSE
                     /\ \A f \in DOMAIN antes[id] \ {"activo"} :
                            despues[id][f] = antes[id][f]
                     /\ \A i \in 1..Len(antes) : i # id => despues[i] = antes[i]
                     /\ \A o \in OpsEliminar \ {op} : TablaDespuesDe(o) = TablaDe(o)
                     /\ UNCHANGED <<compra, detalle_compra, venta, detalle_venta>>
                     /\ antes[id]["activo"] = FALSE => almacen' = almacen
                ELSE /\ resp'[c].status = 404
                     /\ resp'[c].error = "NotFound"
                     /\ almacen' = almacen]_vars

\* C13 witness: a deactivation of a category that was already inactive
\* succeeded, and the category is inactive.
C13_Witness ==
    \E c \in Clientes :
        /\ pc[c] = "done"
        /\ peticion[c].op = "eliminar_categoria"
        /\ peticion[c].previo = "inactivo"
        /\ resp[c].status = 200
        /\ categoria[peticion[c].id]["activo"] = FALSE

\* C14: cancelar_compra on an existing purchase sets its estado to
\* "cancelada" and changes nothing else: the header's other fields, the other
\* headers, the line rows, the products and every other table are as they
\* were; on an absent id it fails with NotFound and the store is unchanged.
C14_CancelarSoloEstado ==
    [][\A c \in Clientes :
        (/\ pc[c] = "idle" /\ pc'[c] # "idle"
         /\ peticion'[c].op = "cancelar_compra"
         /\ Ultima(llamadas'[c]).res # "error") =>
            LET id == peticion'[c].id IN
            IF id \in 1..Len(compra)
            THEN /\ resp'[c].status = 200
                 /\ Len(compra') = Len(compra)
                 /\ compra'[id]["estado"] = "cancelada"
                 /\ \A f \in DOMAIN compra[id] \ {"estado"} :
                        compra'[id][f] = compra[id][f]
                 /\ \A i \in 1..Len(compra) : i # id => compra'[i] = compra[i]
                 /\ UNCHANGED <<referencias, producto, detalle_compra, venta,
                                detalle_venta>>
            ELSE /\ resp'[c].status = 404
                 /\ resp'[c].error = "NotFound"
                 /\ almacen' = almacen]_vars

\* C14 witness: a purchase with observaciones set and with lines was
\* cancelled: it is "cancelada", keeps its observaciones and its lines.
C14_Witness ==
    \E c \in Clientes :
        /\ pc[c] = "done"
        /\ peticion[c].op = "cancelar_compra"
        /\ resp[c].status = 200
        /\ compra[peticion[c].id]["estado"] = "cancelada"
        /\ compra[peticion[c].id]["observaciones"] = "obs"
        /\ \E k \in 1..Len(detalle_compra) :
                detalle_compra[k].id_compra = peticion[c].id

\* The lines of a header, in table order.
LineasCompra(tabla, id) == SelectSeq(tabla, LAMBDA d : d.id_compra = id)

LineasVenta(tabla, id) == SelectSeq(tabla, LAMBDA d : d.id_venta = id)

EsPrefijo(s, t) == Len(s) <= Len(t) /\ SubSeq(t, 1, Len(s)) = s

\* C15: once a header has lines, no step of any operation (update, cancel,
\* deactivation, another creation) changes, removes or adds a line under it:
\* its lines are the same after every step, and the rows already in
\* detalle_compra / detalle_venta stay as they are.
C15_LineasInmutables ==
    [][/\ \A id \in 1..Len(compra) :
            LineasCompra(detalle_compra, id) # <<>> =>
                LineasCompra(detalle_compra', id) = LineasCompra(detalle_compra, id)
       /\ \A id \in 1..Len(venta) :
            LineasVenta(detalle_venta, id) # <<>> =>
                LineasVenta(detalle_venta', id) = LineasVenta(detalle_venta, id)
       /\ EsPrefijo(detalle_compra, detalle_compra')
       /\ EsPrefijo(detalle_venta, detalle_venta')]_vars

\* C15 witness: the first purchase has its two lines after it was updated and
\* cancelled and after a second purchase inserted its own lines.
C15_Witness ==
    /\ Len(compra) = 2
    /\ compra[1]["estado"] = "cancelada"
    /\ compra[1]["observaciones"] = "obs"
    /\ Len(LineasCompra(detalle_compra, 1)) = 2
    /\ Len(LineasCompra(detalle_compra, 2)) >= 1

OpsDelete == OpsEliminar \cup {"cancelar_compra"}

\* Table t2 keeps every row of t, and a row differs from what it was only by
\* activo turned false or estado turned "cancelada".
SoloBajaLogica(t, t2) ==
    /\ Len(t2) = Len(t)
    /\ \A i \in 1..Len(t) : \A f \in DOMAIN t[i] :
            t2[i][f] # t[i][f] =>
                \/ f = "activo" /\ t2[i][f] = FALSE
                \/ f = "estado" /\ t2[i][f] = "cancelada"

\* C16: no step removes a row: every table has after the step at least the
\* row identifiers it had before; and a step of a DELETE endpoint
\* (eliminar_*, cancelar_compra) keeps every row of every table, changing at
\* most activo to false or estado to "cancelada".
C16_SinBorradoFisico ==
    [][/\ Len(categoria') >= Len(categoria)
       /\ Len(proveedor') >= Len(proveedor)
       /\ Len(cliente') >= Len(cliente)
       /\ Len(producto') >= Len(producto)
       /\ Len(compra') >= Len(compra)
       /\ Len(detalle_compra') >= Len(detalle_compra)
       /\ Len(venta') >= Len(venta)
       /\ Len(detalle_venta') >= Len(detalle_venta)
       /\ \A c \in Clientes :
            (pc[c] = "idle" /\ pc'[c] # "idle" /\ peticion'[c].op \in OpsDelete) =>
                /\ SoloBajaLogica(categoria, categoria')
                /\ SoloBajaLogica(proveedor, proveedor')
                /\ SoloBajaLogica(cliente, cliente')
                /\ SoloBajaLogica(producto, producto')
                /\ SoloBajaLogica(compra, compra')
                /\ SoloBajaLogica(venta, venta')
                /\ detalle_compra' = detalle_compra
                /\ detalle_venta' = detalle_venta]_vars

\* C16 witness: a supplier was deactivated and a purchase cancelled, and both
\* rows are in their tables.
C16_Witness ==
    \E c \in Clientes :
        /\ pc[c] = "done"
        /\ peticion[c].op = "eliminar_proveedor"
        /\ peticion[c].previo = "activo"
        /\ resp[c].status = 200
        /\ proveedor[peticion[c].id]["activo"] = FALSE
        /\ Len(compra) >= 1
        /\ compra[1]["estado"] = "cancelada"
        /\ Len(detalle_compra) >= 1

\* C17: a store call that failed is the last store call of its request (it is
\* not repeated and no later step follows it), and the request has ended with
\* an error response.
C17_SinReintentos ==
    \A c \in Clientes : \A i \in 1..Len(llamadas[c]) :
        llamadas[c][i].res = "error" =>
            /\ i = Len(llamadas[c])
            /\ pc[c] = "done"
            /\ resp[c].status >= 400

\* C17 witness: a sale of two lines ended on the failed insert of its header,
\* its third store call.
C17_Witness ==
    \E c \in Clientes :
        /\ pc[c] = "done"
        /\ EsVenta(c)
        /\ Len(llamadas[c]) = 3
        /\ Ultima(llamadas[c]) = Llamada("venta", "insert", "error")
        /\ resp[c].status = 400

\* C18: listar_productos with stock_bajo = true returns exactly the products
\* with stock <= stock_minimo that stand at positions skip .. skip+limit-1
\* (zero-based) of the name-ordered, otherwise-filtered result, in that
\* order: at most limit rows, limit <= 1000, and only low-stock products.
C18_FiltroTrasPaginar ==
    \A c \in Clientes :
        (/\ pc[c] = "done"
         /\ peticion[c].op = "listar_productos"
         /\ resp[c].status = 200
         /\ peticion[c].q.stock_bajo = "true") =>
            LET q == peticion[c].q
                datos == resp[c].datos
            IN  /\ q.limit <= LimitMax
                /\ Len(datos) <= q.limit
                /\ \A j \in 1..Len(datos) :
                        producto[datos[j]]["stock"] <= producto[datos[j]]["stock_minimo"]
                /\ \E orden \in Ordenados(producto, q) :
                    LET pos == { k \in 1..Len(orden) :
                                    /\ k - 1 >= q.skip
                                    /\ k - 1 <= q.skip + q.limit - 1
                                    /\ producto[orden[k]]["stock"]
                                          <= producto[orden[k]]["stock_minimo"] }
                    IN  /\ Len(datos) = Cardinality(pos)
                        /\ \E f \in [1..Len(datos) -> pos] :
                            /\ \A j, k \in 1..Len(datos) : j < k => f[j] < f[k]
                            /\ \A j \in 1..Len(datos) : datos[j] = orden[f[j]]

\* C18 witness: with skip = 0 and limit = 1 the listing returned no product
\* although a low-stock product passes the other filters: it stands outside
\* the page, whose only row is not low on stock.
C18_Witness ==
    \E c \in Clientes :
        /\ pc[c] = "done"
        /\ peticion[c].op = "listar_productos"
        /\ resp[c].status = 200
        /\ peticion[c].q.stock_bajo = "true"
        /\ peticion[c].q.skip = 0
        /\ peticion[c].q.limit = 1
        /\ resp[c].datos = <<>>
        /\ \E i \in 1..Len(producto) :
                /\ PasaFiltros(producto[i], peticion[c].q)
                /\ producto[i]["stock"] <= producto[i]["stock_minimo"]

\* Client c takes a step.
Actua(c) ==
    <<pc[c], idx[c], llamadas[c], peticion[c]>>'
        # <<pc[c], idx[c], llamadas[c], peticion[c]>>

\* C19: no step of crear_venta or crear_compra, whatever its outcome, writes
\* to producto; and when a sale is answered 201 every product it sold still
\* has the stock the sale's pre-check read for it (nothing was taken off).
C19_CreacionNoTocaStock ==
    [][\A c \in Clientes :
        /\ (Actua(c) /\ (EsCreacion(c) \/ EsCreacion(c)')) => producto' = producto
        /\ (Actua(c) /\ EsVenta(c) /\ pc'[c] = "done" /\ resp'[c].status = 201) =>
            \A i \in 1..Len(peticion[c].detalles) :
                producto'[peticion[c].detalles[i].id_producto]["stock"] = visto[c][i]]_vars

\* C19 witness: a sale of cantidad 1 against stock 1 was answered 201 and the
\* stock is 1.
C19_Witness ==
    \E c \in Clientes :
        /\ pc[c] = "done"
        /\ EsVenta(c)
        /\ resp[c].status = 201
        /\ peticion[c].detalles[1].cantidad = 1
        /\ visto[c][1] = 1
        /\ producto[peticion[c].detalles[1].id_producto]["stock"] = 1

\* C20: between the two inserts of crear_compra the store holds the header
\* with no line although the request carries at least one, and that state is
\* what other requests read: the lines a concurrent obtener_compra returns
\* for a header are none or are the lines the store holds for it. The
\* witness is the read of the partial aggregate.
C20_AgregadoParcialVisible ==
    \A c \in Clientes :
        /\ pc[c] = "cc_detalles" =>
            /\ Len(peticion[c].detalles) >= 1
            /\ id_cab[c] \in 1..Len(compra)
            /\ LineasCompra(detalle_compra, id_cab[c]) = <<>>
        /\ (pc[c] = "done" /\ peticion[c].op = "obtener_compra"
                /\ resp[c].status = 200) =>
            /\ resp[c].id \in 1..Len(compra)
            /\ resp[c].datos \in {<<>>, LineasCompra(detalle_compra, resp[c].id)}

\* C20 witness: obtener_compra returned, with status 200 and no lines, the
\* header of a purchase of two lines whose creating request has not yet made
\* its batch insert.
C20_Witness ==
    \E c \in Clientes, o \in Clientes :
        /\ c # o
        /\ pc[c] = "done"
        /\ peticion[c].op = "obtener_compra"
        /\ resp[c].status = 200
        /\ resp[c].datos = <<>>
        /\ pc[o] = "cc_detalles"
        /\ id_cab[o] = resp[c].id
        /\ Len(peticion[o].detalles) = 2

\* C21: every detalle_compra row references a header row that exists in
\* compra and every detalle_venta row one that exists in venta: a request
\* that is about to insert its lines has made a successful header insert and
\* holds the identifier of a header in the store, and the header tables only
\* grow.
C21_IntegridadReferencial ==
    /\ \A k \in 1..Len(detalle_compra) :
            detalle_compra[k].id_compra \in 1..Len(compra)
    /\ \A k \in 1..Len(detalle_venta) :
            detalle_venta[k].id_venta \in 1..Len(venta)
    /\ \A c \in Clientes :
        /\ pc[c] = "cc_detalles" =>
            /\ HaceLlamada(llamadas[c], "compra", "insert", "ok")
            /\ id_cab[c] \in 1..Len(compra)
        /\ pc[c] = "cv_detalles" =>
            /\ HaceLlamada(llamadas[c], "venta", "insert", "ok")
            /\ id_cab[c] \in 1..Len(venta)

\* C21 witness: two clients have each written the lines of an order, one a
\* purchase and one a sale, and both tables of lines hold rows.
C21_Witness ==
    \E c \in Clientes, o \in Clientes :
        /\ c # o
        /\ HaceLlamada(llamadas[c], "detalle_compra", "insert", "ok")
        /\ HaceLlamada(llamadas[o], "detalle_venta", "insert", "ok")
        /\ \E k \in 1..Len(detalle_compra) : detalle_compra[k].id_compra = id_cab[c]
        /\ \E k \in 1..Len(detalle_venta) : detalle_venta[k].id_venta = id_cab[o]

\* C22: "cancelada" is not a final status. The update call of actualizar_compra
\* on an existing purchase, whatever estado the purchase has (cancelled
\* included), is not refused: it writes the estado of the request and the
\* handler goes on to re-read the purchase.
C22_CancelarNoEsTerminal ==
    [][\A c \in Clientes :
        (/\ pc[c] = "ac_update" /\ pc'[c] # "ac_update"
         /\ Ultima(llamadas'[c]).res # "error"
         /\ peticion[c].id \in 1..Len(compra)
         /\ "estado" \in DOMAIN peticion[c].data) =>
            /\ pc'[c] = "oc_compra"
            /\ Ultima(llamadas'[c]) = Llamada("compra", "update", "ok")
            /\ compra'[peticion[c].id]["estado"] = peticion[c].data["estado"]]_vars

\* C22 witness: one client's cancelar_compra and another client's
\* actualizar_compra with estado "pendiente" on the same purchase were both
\* answered 200 and the purchase is "pendiente": the update came after the
\* cancellation and changed the status back.
C22_Witness ==
    \E c \in Clientes, o \in Clientes :
        /\ c # o
        /\ pc[o] = "done"
        /\ peticion[o].op = "cancelar_compra"
        /\ resp[o].status = 200
        /\ pc[c] = "done"
        /\ peticion[c].op = "actualizar_compra"
        /\ resp[c].status = 200
        /\ peticion[c].id = peticion[o].id
        /\ peticion[c].data = [estado |-> "pendiente"]
        /\ compra[peticion[c].id]["estado"] = "pendiente"

====
